---- MODULE Spec2Model ----
(***************************************************************************)
(* Big Ambitions dashboard (src/app.py): the upload callback update_data   *)
(* (parse, normalise, infer the company table, classify), the day-range    *)
(* buttons (update_range_slider) and the filter of update_graphs.          *)
(*                                                                         *)
(* Text is a sequence of one-character strings, so that lower-casing,      *)
(* substring search, split and strip are computed as Python computes them. *)
(* A CSV cell of a numeric column is [k, v]: k = "num" (v is its value),   *)
(* k = "bad" (text pandas.to_numeric cannot parse) or k = "nan" (the field *)
(* is missing from a short row and read_csv fills it with NaN).            *)
(* The company names of the inputs hold letters and spaces only, so the    *)
(* regular expression built from a keyword matches as a plain substring.   *)
(***************************************************************************)
EXTENDS Integers, Sequences, FiniteSets

\* ---------------------------------------------------------------- bounds
\* Largest number of rows of an uploaded file (Spec).
MaxRows == 2
\* Largest number of rows of the table the graphs are drawn from (SpecGraphs).
MaxGraphRows == 2

\* ------------------------------------------------------------------ text
UpperLetters == <<"A", "B", "C", "D", "E", "F", "G", "H", "I", "J", "K", "L", "M", "N", "O", "P", "Q", "R", "S", "T", "U", "V", "W", "X", "Y", "Z">>
LowerLetters == <<"a", "b", "c", "d", "e", "f", "g", "h", "i", "j", "k", "l", "m", "n", "o", "p", "q", "r", "s", "t", "u", "v", "w", "x", "y", "z">>

sRevenue == <<"R", "e", "v", "e", "n", "u", "e">>
sSpRevenue == <<" ", "R", "e", "v", "e", "n", "u", "e">>
sDailyWage == <<"D", "a", "i", "l", "y", " ", "W", "a", "g", "e">>
sSpDailyWageClose == <<" ", "D", "a", "i", "l", "y", " ", "W", "a", "g", "e", ")">>
sBestInc == <<"B", "e", "s", "t", " ", "I", "n", "c">>
sOther == <<"O", "t", "h", "e", "r">>

\* str.lower() on one character.
LowerChar(c) ==
    IF \E i \in 1..Len(UpperLetters) : UpperLetters[i] = c
    THEN LowerLetters[CHOOSE i \in 1..Len(UpperLetters) : UpperLetters[i] = c]
    ELSE c

\* str.lower().
Lower(s) == [i \in 1..Len(s) |-> LowerChar(s[i])]

\* p occurs in s starting at position i.
StartsAt(s, p, i) ==
    /\ i >= 1
    /\ i + Len(p) - 1 <= Len(s)
    /\ \A j \in 1..Len(p) : s[i + j - 1] = p[j]

\* The positions at which p occurs in s.
Occurrences(s, p) == {i \in 1..Len(s) : StartsAt(s, p, i)}

\* Series.str.contains(p) for a pattern without metacharacters.
Contains(s, p) == Occurrences(s, p) # {}

Min(S) == CHOOSE x \in S : \A y \in S : x <= y
Max(S) == CHOOSE x \in S : \A y \in S : y <= x

\* str.split(sep)[0]: the text before the first occurrence of sep, or all of it.
SplitFirst(s, sep) ==
    IF Contains(s, sep) THEN SubSeq(s, 1, Min(Occurrences(s, sep)) - 1) ELSE s

IsSpace(c) == c = " "

\* str.strip(): drop leading and trailing whitespace.
Strip(s) ==
    LET keep == {i \in 1..Len(s) : ~IsSpace(s[i])}
    IN  IF keep = {} THEN <<>> ELSE SubSeq(s, Min(keep), Max(keep))

\* re.search(r'\((.*?) Daily Wage\)', s): the leftmost "(" that some
\* " Daily Wage)" follows, and group(1), the text up to the nearest one.
WageStarts(s) ==
    {i \in 1..Len(s) : s[i] = "(" /\ \E j \in Occurrences(s, sSpDailyWageClose) : j > i}

WageMatches(s) == WageStarts(s) # {}

WageGroup(s) ==
    LET i == Min(WageStarts(s))
        j == Min({k \in Occurrences(s, sSpDailyWageClose) : k > i})
    IN  SubSeq(s, i + 1, j - 1)

\* ------------------------------------------------------------ CSV cells
Num(n) == [k |-> "num", v |-> n]
Bad == [k |-> "bad", v |-> 0]
NaN == [k |-> "nan", v |-> 0]

\* x > 0 on a float64/int64 value (NaN > 0 is False).
GtZero(c) == c.k = "num" /\ c.v > 0

\* abs(x) (abs(NaN) is NaN).
Abs(c) == IF c.k = "num" /\ c.v < 0 THEN Num(0 - c.v) ELSE c


\* ----------------------------------------------------------- input data
dAb == <<"A", "b", " ", "R", "e", "v", "e", "n", "u", "e">>
dAbC == <<"A", "b", " ", "C", " ", "R", "e", "v", "e", "n", "u", "e">>
dQ == <<"Q", " ", "R", "e", "v", "e", "n", "u", "e">>
dRentSp == <<" ", "R", "e", "n", "t", " ">>
dHQ == <<"(", "B", "e", "s", "t", " ", "I", "n", "c", " ", "D", "a", "i", "l", "y", " ", "W", "a", "g", "e", ")">>
dOther == <<"O", "t", "h", "e", "r", " ", "R", "e", "v", "e", "n", "u", "e">>
dRent == <<"R", "e", "n", "t">>
tSale == <<"S", "a", "l", "e">>
tFee == <<"F", "e", "e">>
tRentSp == <<" ", "R", "e", "n", "t">>
tWage == <<"W", "a", "g", "e">>
tRent == <<"R", "e", "n", "t">>

Row(d, day, t, a) == [Description |-> d, Day |-> day, Type |-> t, Amount |-> a]

\* Rows whose Day and Amount parse. The wage row is a short row: its Amount
\* (and ID) are missing, read_csv fills them with NaN, and NaN parses.
GoodRows ==
    { Row(dAb, Num(1), tSale, Num(5)),
      Row(dAbC, Num(2), tSale, Num(7)),
      Row(dQ, Num(2), tFee, Num(-3)),
      Row(dRentSp, Num(5), tRentSp, Num(0)),
      Row(dHQ, Num(12), tWage, NaN),
      Row(dOther, Num(1), tSale, Num(2)) }

\* Rows with a Day or an Amount that is not a number.
BadRows ==
    { Row(dRent, Bad, tRent, Num(-5)),
      Row(dRent, Num(1), tRent, Bad) }

RawRows == GoodRows \cup BadRows

SeqsUpTo(S, n) == UNION {[1..m -> S] : m \in 0..n}

\* What the browser hands to update_data: the file name's extension, whether
\* the bytes decode as UTF-8, and the rows of the file.
File(csv, utf8, rows) == [isNone |-> FALSE, csv |-> csv, utf8 |-> utf8, rows |-> rows]
NoContents == [isNone |-> TRUE, csv |-> FALSE, utf8 |-> FALSE, rows |-> <<>>]

Uploads ==
    {File(TRUE, TRUE, rows) : rows \in SeqsUpTo(RawRows, MaxRows)}
    \cup {File(FALSE, TRUE, rows) : rows \in SeqsUpTo(RawRows, 1)}
    \cup {File(TRUE, FALSE, rows) : rows \in SeqsUpTo(RawRows, 1)}

\* ----------------------------------------------------------- dcc.Store
None == [isNone |-> TRUE, df |-> <<>>]
\* df.to_json(orient='split'), read back by pd.read_json(orient='split').
ToJson(df) == [isNone |-> FALSE, df |-> df]

\* -------------------------------------------------------- get_companies
RevenueCompanies(df) ==
    { Strip(SplitFirst(df[i].Description, sSpRevenue)) :
        i \in {j \in 1..Len(df) : GtZero(df[j].Amount)
                                  /\ Contains(df[j].Description, sRevenue)} }
    \ {<<>>}

Headquarters(df) ==
    { Strip(WageGroup(df[i].Description)) :
        i \in {j \in 1..Len(df) : Contains(df[j].Description, sDailyWage)
                                  /\ WageMatches(df[j].Description)} }
    \cap {sBestInc}

\* The keys of the dictionary get_companies returns.
get_companies(df) == RevenueCompanies(df) \cup Headquarters(df)

\* The value of a key: [company.lower()].
Keywords(company) == <<Lower(company)>>

\* The dictionary is built by iterating a set of strings, whose order Python
\* does not fix (string hashes are salted per process): every order is possible.
DictOrders(S) ==
    { [i \in 1..Cardinality(S) |-> [company |-> f[i], keywords |-> Keywords(f[i])]] :
        f \in {g \in [1..Cardinality(S) -> S] : \A x \in S : \E i \in 1..Cardinality(S) : g[i] = x} }

\* ----------------------------------------------------------- update_data
\* df.apply(lambda x: x.str.strip() if isinstance(x, str) else x): apply hands
\* the lambda one column (a Series) at a time, and a Series is not a str.
ColumnIsStr(column) == FALSE

StripIfStr(column, text) == IF ColumnIsStr(column) THEN Strip(text) ELSE text

\* Variant: zero counted as income (x >= 0).
IncomeOrExpenseGe(x) == IF x.k = "num" /\ x.v >= 0 THEN "Income" ELSE "Expense"

\* 'Income' if x > 0 else 'Expense'
IncomeOrExpense(x) == IF GtZero(x) THEN "Income" ELSE "Expense"

\* Lines 419-424 on one row.
NormalizeRow(r) ==
    [ Description |-> StripIfStr("Description", r.Description),
      Company |-> sOther,
      Day |-> r.Day.v,
      Type |-> StripIfStr("Type", r.Type),
      Amount |-> Abs(r.Amount),
      IncomeOrExpense |-> IncomeOrExpense(r.Amount) ]

Normalize(rows) == [i \in 1..Len(rows) |-> NormalizeRow(rows[i])]

\* df['Description'].str.lower().str.contains('|'.join(keywords), case=False)
Mask(description, keywords) ==
    \E k \in 1..Len(keywords) : Contains(Lower(Lower(description)), Lower(keywords[k]))

\* Variant: first match wins (a record already labelled is left alone).
AssignFirst(rec, entry) ==
    IF Mask(rec.Description, entry.keywords) /\ rec.Company = sOther
    THEN [rec EXCEPT !.Company = entry.company] ELSE rec

\* df.loc[mask, 'Company'] = company
Assign(rec, entry) ==
    IF Mask(rec.Description, entry.keywords) THEN [rec EXCEPT !.Company = entry.company] ELSE rec

\* The loop over companies_dict.items(), after its first n entries.
RECURSIVE ClassifyLoop(_, _, _)
ClassifyLoop(df, dict, n) ==
    IF n = 0 THEN df
    ELSE LET prev == ClassifyLoop(df, dict, n - 1)
         IN  [i \in 1..Len(df) |-> Assign(prev[i], dict[n])]

Classify(df, dict) == ClassifyLoop(df, dict, Len(dict))

\* Variant: pd.to_numeric(df['Amount'], errors='coerce') never raises.
RaisesCoerce(contents) ==
    \/ ~contents.utf8
    \/ contents.rows = <<>>
    \/ \E i \in 1..Len(contents.rows) : contents.rows[i].Day.k # "num"

\* What makes the try block raise: undecodable bytes, an empty file
\* (EmptyDataError), a Day or an Amount pd.to_numeric cannot parse, and a
\* missing Day (the column is then float and range() refuses it).
Raises(contents) ==
    \/ ~contents.utf8
    \/ contents.rows = <<>>
    \/ \E i \in 1..Len(contents.rows) :
          \/ contents.rows[i].Day.k # "num"
          \/ contents.rows[i].Amount.k = "bad"

DayMin(df) == Min({df[i].Day : i \in 1..Len(df)})
DayMax(df) == Max({df[i].Day : i \in 1..Len(df)})

\* {i: str(i) for i in range(min_day, max_day + 1, 5)}
Marks(lo, hi) == {i \in lo..hi : (i - lo) % 5 = 0}

MsgNotCsv == "Please upload a CSV file"
MsgError == "Error processing file"
MsgOk == "File uploaded successfully!"

\* The list update_data returns when it fails.
Failure(msg) ==
    [ stored |-> None, status |-> msg, controls |-> "none",
      smin |-> 0, smax |-> 1, svalue |-> <<0, 1>>, marks |-> {},
      company_options |-> {}, company_value |-> {},
      type_options |-> {}, type_value |-> {}, dict |-> <<>> ]

\* The list update_data returns when it succeeds; sorted(unique()) lists are
\* kept as sets. dict is companies_dict, in the order it was iterated.
Success(df, dict) ==
    [ stored |-> ToJson(df), status |-> MsgOk, controls |-> "block",
      smin |-> DayMin(df), smax |-> DayMax(df),
      svalue |-> <<DayMin(df), DayMax(df)>>, marks |-> Marks(DayMin(df), DayMax(df)),
      company_options |-> {df[i].Company : i \in 1..Len(df)},
      company_value |-> {df[i].Company : i \in 1..Len(df)},
      type_options |-> {df[i].Type : i \in 1..Len(df)},
      type_value |-> {df[i].Type : i \in 1..Len(df)}, dict |-> dict ]

\* Variant: rows that do not parse are skipped and the rest is loaded.
ResultsSkipBad(contents) ==
    LET Parses(r) == r.Day.k = "num" /\ r.Amount.k # "bad"
        good == SelectSeq(contents.rows, Parses)
    IN  IF ~contents.csv THEN {Failure(MsgNotCsv)}
        ELSE IF ~contents.utf8 \/ good = <<>> THEN {Failure(MsgError)}
        ELSE LET df == Normalize(good)
             IN  {Success(Classify(df, dict), dict) : dict \in DictOrders(get_companies(df))}

\* The results update_data can return for an upload, one per iteration order.
Results(contents) ==
    IF ~contents.csv THEN {Failure(MsgNotCsv)}
    ELSE IF Raises(contents) THEN {Failure(MsgError)}
    ELSE LET df == Normalize(contents.rows)
         IN  {Success(Classify(df, dict), dict) : dict \in DictOrders(get_companies(df))}

\* update_data is a function of the upload and of the iteration order alone:
\* its results, computed once for every upload.
ResultsOf == [contents \in Uploads |-> Results(contents)]

\* ------------------------------------------------------------------ state
VARIABLES
    upload,            \* upload-data.contents / filename of the latest upload
    stored,            \* stored-data.data
    status,            \* upload-status.children
    controls,          \* sidebar-controls.style.display
    sliderMin,         \* day-range-slider.min
    sliderMax,         \* day-range-slider.max
    sliderValue,       \* day-range-slider.value
    sliderMarks,       \* day-range-slider.marks
    companyOptions,    \* company-filter.options
    companyValue,      \* company-filter.value
    typeOptions,       \* type-filter.options
    typeValue,         \* type-filter.value
    companies_dict,    \* the dictionary the latest load classified with
    graphs,            \* the rows the figures were last drawn from
    hadTable           \* history: stored-data held a table when the latest upload came

vars == <<upload, stored, status, controls, sliderMin, sliderMax, sliderValue,
          sliderMarks, companyOptions, companyValue, typeOptions, typeValue,
          companies_dict, graphs, hadTable>>

NoGraphs == [drawn |-> FALSE, rows |-> <<>>]

\* The layout of create_app.
Init ==
    /\ upload = NoContents
    /\ stored = None
    /\ status = ""
    /\ controls = "none"
    /\ sliderMin = 0
    /\ sliderMax = 1
    /\ sliderValue = <<0, 1>>
    /\ sliderMarks = {}
    /\ companyOptions = {}
    /\ companyValue = {}
    /\ typeOptions = {}
    /\ typeValue = {}
    /\ companies_dict = <<>>
    /\ graphs = NoGraphs
    /\ hadTable = FALSE

\* The outputs of update_data written to the components.
Outputs(out) ==
    /\ stored' = out.stored
    /\ status' = out.status
    /\ controls' = out.controls
    /\ sliderMin' = out.smin
    /\ sliderMax' = out.smax
    /\ sliderValue' = out.svalue
    /\ sliderMarks' = out.marks
    /\ companyOptions' = out.company_options
    /\ companyValue' = out.company_value
    /\ typeOptions' = out.type_options
    /\ typeValue' = out.type_value
    /\ companies_dict' = out.dict

update_data(contents) ==
    /\ ~contents.isNone
    /\ upload' = contents
    /\ \E out \in ResultsOf[contents] : Outputs(out)
    /\ hadTable' = ~stored.isNone
    /\ UNCHANGED graphs

\* ---------------------------------------------------- update_range_slider
RangeFor(button_id, df) ==
    LET min_day == DayMin(df)
        max_day == DayMax(df)
    IN  IF button_id = "last-day-button" THEN <<max_day - 1, max_day - 1>>
        ELSE IF button_id = "last-week-button"
             THEN <<Max({min_day, max_day - 8}), max_day - 1>>
        ELSE <<min_day, max_day>>

update_range_slider(button_id) ==
    /\ ~stored.isNone
    /\ sliderValue' = RangeFor(button_id, stored.df)
    /\ UNCHANGED <<upload, stored, status, controls, sliderMin, sliderMax, sliderMarks,
                   companyOptions, companyValue, typeOptions, typeValue,
                   companies_dict, graphs, hadTable>>

\* ----------------------------------------------------------- update_graphs
\* Variant: the upper end of the day range is exclusive.
KeepExclusive(rec, day_range, selected_companies, selected_types) ==
    /\ rec.Day >= day_range[1]
    /\ rec.Day < day_range[2]
    /\ rec.Company \in selected_companies
    /\ rec.Type \in selected_types

\* The row mask of filtered_df.
Keep(rec, day_range, selected_companies, selected_types) ==
    /\ rec.Day >= day_range[1]
    /\ rec.Day <= day_range[2]
    /\ rec.Company \in selected_companies
    /\ rec.Type \in selected_types

RECURSIVE FilterRows(_, _, _, _)
FilterRows(df, day_range, selected_companies, selected_types) ==
    IF df = <<>> THEN <<>>
    ELSE LET rest == FilterRows(Tail(df), day_range, selected_companies, selected_types)
         IN  IF Keep(Head(df), day_range, selected_companies, selected_types)
             THEN <<Head(df)>> \o rest ELSE rest

\* update_graphs up to filtered_df, from which every figure is drawn. It runs
\* when the user changes one of its inputs, with the other inputs as they are.
update_graphs(json_data, day_range, selected_companies, selected_types) ==
    /\ ~json_data.isNone
    /\ graphs' = [drawn |-> TRUE,
                  rows |-> FilterRows(json_data.df, day_range, selected_companies, selected_types)]
    /\ sliderValue' = day_range
    /\ companyValue' = selected_companies
    /\ typeValue' = selected_types
    /\ UNCHANGED <<upload, stored, status, controls, sliderMin, sliderMax, sliderMarks,
                   companyOptions, typeOptions, companies_dict, hadTable>>

SliderMoved ==
    \E lo \in sliderMin..sliderMax, hi \in sliderMin..sliderMax :
        update_graphs(stored, <<lo, hi>>, companyValue, typeValue)

CompaniesChosen ==
    \E selected \in SUBSET companyOptions :
        update_graphs(stored, sliderValue, selected, typeValue)

TypesChosen ==
    \E selected \in SUBSET typeOptions :
        update_graphs(stored, sliderValue, companyValue, selected)

\* The tables the graphs are drawn from in SpecGraphs: every load of a file
\* of GraphRows.
GraphRows ==
    { Row(dAb, Num(1), tSale, Num(5)),
      Row(dAbC, Num(2), tSale, Num(7)),
      Row(dRentSp, Num(5), tRentSp, Num(0)) }

GraphUploads == {File(TRUE, TRUE, rows) : rows \in SeqsUpTo(GraphRows, MaxGraphRows)}

InitGraphs ==
    \E contents \in GraphUploads : \E out \in Results(contents) :
        /\ upload = contents
        /\ stored = out.stored
        /\ status = out.status
        /\ controls = out.controls
        /\ sliderMin = out.smin
        /\ sliderMax = out.smax
        /\ sliderValue = out.svalue
        /\ sliderMarks = out.marks
        /\ companyOptions = out.company_options
        /\ companyValue = out.company_value
        /\ typeOptions = out.type_options
        /\ typeValue = out.type_value
        /\ companies_dict = out.dict
        /\ graphs = NoGraphs
        /\ hadTable = FALSE

NextGraphs == SliderMoved \/ CompaniesChosen \/ TypesChosen

SpecGraphs == InitGraphs /\ [][NextGraphs]_vars

Upload == \E contents \in Uploads : update_data(contents)
LastDay == update_range_slider("last-day-button")
LastWeek == update_range_slider("last-week-button")
AllTime == update_range_slider("all-time-button")

Next == Upload \/ LastDay \/ LastWeek \/ AllTime

Spec == Init /\ [][Next]_vars


\* ================================================================ claims
Loaded == ~stored.isNone
Rows == upload.rows
Table == stored.df

\* The indices of the dictionary entries whose keywords match a description.
Matching(description) ==
    {j \in 1..Len(companies_dict) : Mask(description, companies_dict[j].keywords)}

\* The company name the Revenue rule reads off a description.
RevenueName(description) == Strip(SplitFirst(description, sSpRevenue))

\* df is the whole file, row for row: nothing dropped, nothing unparsed.
CompleteFor(df, rows) ==
    /\ Len(df) = Len(rows)
    /\ \A i \in 1..Len(rows) :
         /\ rows[i].Day.k = "num"
         /\ rows[i].Amount.k # "bad"
         /\ df[i].Description = rows[i].Description
         /\ df[i].Type = rows[i].Type
         /\ df[i].Day = rows[i].Day.v
         /\ df[i].Amount.k = rows[i].Amount.k
         /\ df[i].Amount.v \in {rows[i].Amount.v, 0 - rows[i].Amount.v}
         /\ df[i].Amount.v >= 0

C2_LastMatchWins ==
    Loaded => \A i \in 1..Len(Table) :
        Matching(Table[i].Description) # {} =>
            Table[i].Company = companies_dict[Max(Matching(Table[i].Description))].company

\* A loaded record that matches two entries naming different companies.
C2_Witness ==
    /\ Loaded
    /\ \E i \in 1..Len(Table) :
         /\ Cardinality(Matching(Table[i].Description)) >= 2
         /\ Table[i].Company
              # companies_dict[Min(Matching(Table[i].Description))].company

\* ---- C3
\* C3 as stated: every dictionary entry is the headquarters name or is read
\* off a row whose original Amount is positive and whose Description contains
\* 'Revenue'; rows with a negative original Amount contribute no entry.
C3_RevenueOnlyFromIncome ==
    Loaded => \A j \in 1..Len(companies_dict) :
        \/ companies_dict[j].company = sBestInc
        \/ \E i \in 1..Len(Rows) :
             /\ GtZero(Rows[i].Amount)
             /\ Contains(Rows[i].Description, sRevenue)
             /\ RevenueName(Rows[i].Description) = companies_dict[j].company

\* ---- C4
\* The failure result of update_data.
FailureShape ==
    /\ stored = None
    /\ status \in {MsgNotCsv, MsgError}
    /\ controls = "none"
    /\ sliderMin = 0 /\ sliderMax = 1 /\ sliderMarks = {}
    /\ companyOptions = {} /\ companyValue = {}
    /\ typeOptions = {} /\ typeValue = {}

\* The success result of update_data: the table of the whole file.
SuccessShape ==
    /\ Loaded
    /\ status = MsgOk
    /\ controls = "block"
    /\ upload.csv /\ upload.utf8
    /\ Len(Table) >= 1
    /\ CompleteFor(Table, Rows)
    /\ \A i \in 1..Len(Table) :
         Table[i].Company \in {sOther} \cup {companies_dict[j].company : j \in 1..Len(companies_dict)}
    /\ companyOptions = {Table[i].Company : i \in 1..Len(Table)}
    /\ typeOptions = {Table[i].Type : i \in 1..Len(Table)}

\* C4: after any upload the outputs are the failure result or the complete
\* table with the success message, and a file with a wrong extension,
\* undecodable bytes or a Day or Amount that is no number gives the failure.
C4_AllOrNothing ==
    ~upload.isNone =>
        /\ FailureShape \/ SuccessShape
        /\ (\/ ~upload.csv
            \/ ~upload.utf8
            \/ \E i \in 1..Len(Rows) : Rows[i].Day.k = "bad" \/ Rows[i].Amount.k = "bad")
           => FailureShape

\* A file whose first row is valid and whose second row has a non-numeric
\* Amount: the load failed as a whole.
C4_Witness ==
    /\ ~upload.isNone /\ upload.csv /\ upload.utf8
    /\ Len(Rows) = 2
    /\ Rows[1].Day.k = "num" /\ Rows[1].Amount.k = "num"
    /\ Rows[2].Day.k = "num" /\ Rows[2].Amount.k = "bad"
    /\ stored = None /\ status = MsgError

\* ---- C5
\* C5 as stated: Description and Type of every loaded record have no leading
\* or trailing whitespace.
C5_TextTrimmed ==
    Loaded => \A i \in 1..Len(Table) :
        /\ Table[i].Description = Strip(Table[i].Description)
        /\ Table[i].Type = Strip(Table[i].Type)

\* ---- C6
\* The records of the stored table a filter must keep.
Selected ==
    {i \in 1..Len(Table) :
        /\ sliderValue[1] <= Table[i].Day
        /\ Table[i].Day <= sliderValue[2]
        /\ Table[i].Company \in companyValue
        /\ Table[i].Type \in typeValue}

\* C6: the rows the graphs are drawn from are exactly the stored records with
\* lo <= Day <= hi, Company and Type among the selected ones, and the stored
\* table is still the complete table of the load.
C6_FilterExact ==
    graphs.drawn =>
        /\ Len(graphs.rows) = Cardinality(Selected)
        /\ \A k \in 1..Len(graphs.rows) :
             \E i \in Selected : graphs.rows[k] = Table[i]
        /\ \A i \in Selected :
             \E k \in 1..Len(graphs.rows) : graphs.rows[k] = Table[i]
        /\ CompleteFor(Table, Rows)

\* Range [5,5] with every company and type selected kept the records of day 5
\* and dropped a record of another day.
C6_Witness ==
    /\ graphs.drawn
    /\ sliderValue = <<5, 5>>
    /\ companyValue = companyOptions
    /\ typeValue = typeOptions
    /\ Len(graphs.rows) >= 1
    /\ Len(graphs.rows) < Len(Table)
    /\ \A k \in 1..Len(graphs.rows) : graphs.rows[k].Day = 5

\* ---- C7
\* C7 as stated: every loaded record is labelled with a dictionary key or
\* 'Other', and with 'Other' if and only if no dictionary entry matches it.
C7_OtherIffNoMatch ==
    Loaded => \A i \in 1..Len(Table) :
        /\ Table[i].Company \in {sOther} \cup {companies_dict[j].company : j \in 1..Len(companies_dict)}
        /\ (Table[i].Company = sOther) <=> (Matching(Table[i].Description) = {})

\* ---- C8
\* C8 as stated: once a table is stored, a later upload leaves a table stored.
C8_NeverWithoutTable == hadTable => Loaded

\* C8 amended: the store holds either nothing (no upload yet, or the latest
\* upload failed) or the complete table of the latest upload; it holds a table
\* exactly when the latest upload succeeded.
C8_NoneOrComplete ==
    /\ Loaded <=> status = MsgOk
    /\ Loaded => ~upload.isNone /\ CompleteFor(Table, Rows)

\* A table was stored, and a later upload of two rows replaced it.
C8_Witness == hadTable /\ Loaded /\ Len(Table) = 2

\* ---- C9
\* C9 as stated: the labels of the loaded table are the same for every
\* iteration order of the inferred dictionary.
C9_OrderIndependent ==
    Loaded => \A out \in Results(upload) :
        \A i \in 1..Len(Table) : out.stored.df[i].Company = Table[i].Company

\* ---- C10
\* C10 as stated: with a table loaded, the slider value [lo, hi] satisfies
\* min_day <= lo <= hi <= max_day.
C10_SliderInRange ==
    Loaded => /\ DayMin(Table) <= sliderValue[1]
              /\ sliderValue[1] <= sliderValue[2]
              /\ sliderValue[2] <= DayMax(Table)

====
